---- MODULE Spec2Model ----
(***************************************************************************)
(* Model of run_claude_sdk (src/app.py): one orchestration run against the *)
(* streaming backend, the CLI fallback, and the error-message rewriting.   *)
(*                                                                         *)
(* Texts are sequences of one-character strings.  "x" is a visible         *)
(* character, " " and "\n" are whitespace.  A fixed message of the program *)
(* is one bracketed atom standing for the whole literal.  Exception        *)
(* messages are sequences of fragments; `"f" in str(e)` is membership of   *)
(* the fragment.                                                           *)
(***************************************************************************)
EXTENDS Integers, Sequences, FiniteSets, TLC

\* ------------------------------------------------------------------ bounds
MaxEvents == 2          \* events the backend emits before completing/raising
HMaxEvents == 1         \* the same, for each of the concurrently handled requests
MaxMessages == 3        \* message events the app handles

\* ------------------------------------------------------- program constants
MAX_TURNS == 8
MinContentLen == 50
MAX_MESSAGE_LENGTH == 3000
TruncatedLen == 500
DEFAULT_REPO_PATH == "/tmp/repos"
ANTHROPIC_MODEL == "None"

None == "None"

\* An Optional value that is not a string is a sequence of at most one
\* element: <<>> is None.  None for an Optional[str] text is the atom
\* sequence NoneText, which no str equals.
Nothing == <<>>
Some(v) == <<v>>
NoneText == <<"<None>">>

\* dict.get(key): None when the key is missing
get(d, key) == IF key \in DOMAIN d THEN d[key] ELSE None

\* ------------------------------------------------------------ sample texts
RECURSIVE Rep(_, _)
Rep(c, n) == IF n = 0 THEN <<>> ELSE <<c>> \o Rep(c, n - 1)

EmptyText  == <<>>
ShortText  == Rep("x", 24)                       \* 'def add(a,b): return a+b'
LongText   == Rep("x", 50)                       \* exactly the threshold
PaddedText == <<" ">> \o Rep("x", 49) \o <<"\n">> \* 51 raw, 49 after strip

\* ------------------------------------------------------- fixed messages
IncompleteNotice  == <<"\n", "\n", "[Analysis incomplete - Hit maximum turn limit]">>
InterruptedNotice == <<"[Task interrupted - hit the maximum turn limit]">>
BothFailedMsg     == <<"Both SDK and CLI failed. Try breaking your request into smaller, more specific parts.">>
ParsingErrorMsg   == <<"[Claude encountered a ", "parsing error", " with complex output]">>
CwdMsg            == <<"[Working directory issue. Please check ", DEFAULT_REPO_PATH, " exists.]">>
TimeoutMsg        == <<"[Task timed out]">>
FocusedMsg        == <<"[Try using a more focused request]">>

\* ------------------------------------------------------------ str helpers
Whitespace == {" ", "\n"}

RECURSIVE lstrip(_)
lstrip(s) ==
    IF s = <<>> THEN s
    ELSE IF Head(s) \in Whitespace THEN lstrip(Tail(s)) ELSE s

RECURSIVE rstrip(_)
rstrip(s) ==
    IF s = <<>> THEN s
    ELSE IF s[Len(s)] \in Whitespace THEN rstrip(SubSeq(s, 1, Len(s) - 1)) ELSE s

strip(s) == rstrip(lstrip(s))

RECURSIVE join(_, _)
join(sep, items) ==
    IF items = <<>> THEN <<>>
    ELSE IF Len(items) = 1 THEN items[1]
    ELSE items[1] \o sep \o join(sep, Tail(items))

\* Python truthiness of an Optional[str]
Truthy(t) == t # NoneText /\ t # <<>>

\* `frag in message`
Contains(message, frag) == \E i \in 1..Len(message) : message[i] = frag

lower_frag(f) == IF f \in {"Timeout", "TIMEOUT"} THEN "timeout" ELSE f

lower(message) == [i \in 1..Len(message) |-> lower_frag(message[i])]

\* ------------------------------------------------------------------ events
\* A content item of an assistant message either has a `text` attribute or
\* not (a tool-use block).
NoTextItem == [kind |-> "tool_use"]
TextItem(t) == [kind |-> "text", text |-> t]

ContentEvents ==
    { [type |-> "content", content |-> c] :
        c \in { <<NoTextItem>>,
                <<TextItem(ShortText)>>,
                <<TextItem(LongText)>>,
                <<TextItem(EmptyText)>>,
                <<TextItem(ShortText), NoTextItem, TextItem(PaddedText)>> } }

Subtypes == {"success", "error_max_turns", "error_during_execution"}
Tokens == {None, "s1", "s2"}
\* total_cost_usd is Optional[float]: Nothing is None.
CostOf(tok) ==
    IF tok = "s1" THEN Some(1) ELSE IF tok = "s2" THEN Some(2) ELSE Some(0)

Outcome(st, tok, r) ==
    [type |-> "outcome", subtype |-> st, session_id |-> tok,
     total_cost_usd |-> CostOf(tok), result |-> r]

OutcomeEvents ==
    { Outcome(st, tok, r) :
        st \in Subtypes, tok \in Tokens, r \in {NoneText, ShortText, LongText} }
    \cup { Outcome("success", "s1", PaddedText),
           [Outcome("success", "s1", LongText) EXCEPT !.total_cost_usd = Nothing] }

Events == ContentEvents \cup OutcomeEvents

hasattr_subtype(msg) == msg.type = "outcome"
hasattr_content(msg) == msg.type = "content"
hasattr_text(item) == item.kind = "text"

\* ------------------------------------------- result extraction (199-235)
RECURSIVE item_texts(_)
item_texts(content) ==
    IF content = <<>> THEN <<>>
    ELSE (IF hasattr_text(Head(content)) THEN <<Head(content).text>> ELSE <<>>)
         \o item_texts(Tail(content))

ExtractInit ==
    [result_text |-> <<>>, session_id |-> None, total_cost |-> Some(0),
     assistant_responses |-> <<>>]

\* The loop with the subtype test (206) left out.
ExtractStep_anysubtype(acc, msg) ==
    IF hasattr_subtype(msg)
    THEN [acc EXCEPT !.session_id = msg.session_id,
                     !.total_cost = msg.total_cost_usd,
                     !.result_text = msg.result]
    ELSE IF hasattr_content(msg)
         THEN [acc EXCEPT !.assistant_responses = @ \o item_texts(msg.content)]
         ELSE acc

ExtractStep(acc, msg) ==
    IF hasattr_subtype(msg)
    THEN IF msg.subtype \in {"success", "error_max_turns"}
         THEN [acc EXCEPT !.session_id = msg.session_id,
                          !.total_cost = msg.total_cost_usd,
                          !.result_text = msg.result]
         ELSE acc
    ELSE IF hasattr_content(msg)
         THEN [acc EXCEPT !.assistant_responses = @ \o item_texts(msg.content)]
         ELSE acc

RECURSIVE ExtractFrom(_, _)
ExtractFrom(acc, msgs) ==
    IF msgs = <<>> THEN acc
    ELSE ExtractFrom(ExtractStep(acc, Head(msgs)), Tail(msgs))

Extract(msgs) == ExtractFrom(ExtractInit, msgs)

\* The combination keeping only the last assistant text.
Combine_last(result_text, assistant_responses) ==
    IF ~Truthy(result_text) /\ assistant_responses # <<>>
    THEN assistant_responses[Len(assistant_responses)]
    ELSE result_text

Combine(result_text, assistant_responses) ==
    IF ~Truthy(result_text) /\ assistant_responses # <<>>
    THEN join(<<"\n", "\n">>, assistant_responses)
    ELSE result_text

\* The threshold test written with <= instead of <.
TooShort_inclusive(result_text) ==
    ~Truthy(result_text) \/ Len(strip(result_text)) <= MinContentLen

TooShort(result_text) ==
    ~Truthy(result_text) \/ Len(strip(result_text)) < MinContentLen

AddNote(result_text, assistant_responses) ==
    IF TooShort(result_text)
    THEN IF assistant_responses # <<>>
         THEN join(<<"\n", "\n">>, assistant_responses) \o IncompleteNotice
         ELSE InterruptedNotice
    ELSE result_text

FinalText(msgs) ==
    LET acc == Extract(msgs)
    IN  AddNote(Combine(acc.result_text, acc.assistant_responses),
                acc.assistant_responses)

SuccessResult(msgs) ==
    LET acc == Extract(msgs)
    IN  [success |-> TRUE,
         result |-> strip(FinalText(msgs)),
         session_id |-> acc.session_id,
         cost |-> acc.total_cost]

\* ------------------------------------- error-message rewriting (237-255)
\* The rewriting with a final else that replaces every unmatched message.
Rewrite_generic(error_message) ==
    IF Contains(error_message, "TaskGroup") \/ Contains(error_message, "JSONDecodeError")
    THEN ParsingErrorMsg
    ELSE IF Contains(error_message, "cwd") THEN CwdMsg
    ELSE IF Contains(lower(error_message), "timeout") THEN TimeoutMsg
    ELSE IF Contains(error_message, "parsing error") THEN FocusedMsg
    ELSE <<"[An unexpected error occurred]">>

Rewrite(error_message) ==
    IF Contains(error_message, "TaskGroup") \/ Contains(error_message, "JSONDecodeError")
    THEN ParsingErrorMsg
    ELSE IF Contains(error_message, "cwd") THEN CwdMsg
    ELSE IF Contains(lower(error_message), "timeout") THEN TimeoutMsg
    ELSE IF Contains(error_message, "parsing error") THEN FocusedMsg
    ELSE error_message

ErrorResult(e) ==
    [success |-> FALSE, error |-> Rewrite(e.msg), result |-> Rewrite(e.msg)]

\* --------------------------------------------------- exceptions and inputs
\* An exception is its class and its message.  CancelledError derives from
\* BaseException only, so `except Exception` does not catch it.
Exc(cls, msg) == [cls |-> cls, msg |-> msg]

\* A handler that names the classes it expects instead of Exception.
IsException_named(e) == e.cls \in {"Exception", "TypeError", "ValueError"}

IsException(e) == e.cls # "CancelledError"

ErrMsgs ==
    { <<>>,
      <<"connection reset by peer">>,
      <<"JSONDecodeError">>,
      <<"unhandled errors in a ", "TaskGroup">>,
      <<"[Errno 2] No such file or directory: ", "cwd">>,
      <<"Timeout">>,
      <<"request ", "timeout">>,
      <<"parsing error">> }

\* Messages of the exceptions the ClaudeCodeOptions constructor raises.
CtorErrMsgs ==
    { <<"__init__() got an unexpected keyword argument 'max_turns'">>,
      <<"__init__() got an unexpected keyword argument '", "cwd", "'">> }

\* Every stream error taken for a transient one.
IsTransient_all(e) == Contains(e.msg, "JSONDecodeError") \/ TRUE

\* `"JSONDecodeError" in str(query_error) or "TaskGroup" in str(query_error)`
IsTransient(e) == Contains(e.msg, "JSONDecodeError") \/ Contains(e.msg, "TaskGroup")

Requests ==
    [ prompt : {<<"p">>},
      session_id : {None, "s0"},
      options : {Nothing, Some(MAX_TURNS + 5)},   \* the max_turns override
      working_dir : {None} ]
    \cup { [prompt |-> <<>>, session_id |-> None, options |-> Some(1),
            working_dir |-> None] }               \* test_sdk.py, test 3

\* ------------------------------------------------ CLI fallback (139-195)
Digits == {"0", "1", "2", "3", "4", "5", "6", "7", "8", "9"}

\* json.loads on the subset of JSON texts the model feeds it.
json_loads(s) ==
    IF s = <<>> THEN [ok |-> FALSE]
    ELSE IF Head(s) = "{" /\ s[Len(s)] = "}" /\ Len(s) >= 2
    THEN IF Len(s) >= 3 /\ s[2] = "\"result\":"
         THEN [ok |-> TRUE, type |-> "dict", has_result |-> TRUE,
               result |-> SubSeq(s, 3, Len(s) - 1)]
         ELSE [ok |-> TRUE, type |-> "dict", has_result |-> FALSE]
    ELSE IF Head(s) = "[" /\ s[Len(s)] = "]" /\ Len(s) >= 2
    THEN [ok |-> TRUE, type |-> "list"]
    ELSE IF \A i \in 1..Len(s) : s[i] \in Digits
    THEN [ok |-> TRUE, type |-> "int"]
    ELSE IF s = <<"n", "u", "l", "l">>
    THEN [ok |-> TRUE, type |-> "NoneType"]
    ELSE [ok |-> FALSE]

Stdouts ==
    { <<>>,
      <<"o", "k">>,
      LongText,
      <<"{", "}">>,
      <<"{", "\"result\":", "}">>,
      <<"{", "\"result\":">> \o ShortText \o <<"}">>,
      <<"{", "\"result\":">> \o LongText \o <<"}">>,
      <<"[", "]">>,
      <<"4", "2">>,
      <<"n", "u", "l", "l">> }

\* What subprocess.run does: fails to spawn, times out after 300 s, or
\* the process exits with a return code and its captured stdout.
CliRuns ==
    { [kind |-> "spawn_failure"], [kind |-> "timeout"] }
    \cup { [kind |-> "exit", returncode |-> rc, stdout |-> out] :
              rc \in {0, 1}, out \in Stdouts }

CliSuccess(text) ==
    [success |-> TRUE, result |-> text, session_id |-> None, cost |-> Some(0)]

\* Lines 142-191 for one subprocess.run behaviour: a returned result, or
\* the exception raised inside the inner try.
CliAttempt(run) ==
    IF run.kind = "spawn_failure"
    THEN [raised |-> Exc("FileNotFoundError", <<"[Errno 2] No such file or directory: 'claude'">>)]
    ELSE IF run.kind = "timeout"
    THEN [raised |-> Exc("TimeoutExpired", <<"Command timed out after 300 seconds">>)]
    ELSE IF run.returncode # 0
    THEN [raised |-> Exc("RuntimeError", <<"CLI fallback failed: ", "stderr">>)]
    ELSE LET cli_result == json_loads(run.stdout)
         IN  IF ~cli_result.ok THEN [returned |-> CliSuccess(run.stdout)]
             ELSE IF cli_result.type # "dict"
             THEN [raised |-> Exc("AttributeError", <<"object has no attribute 'get'">>)]
             ELSE IF cli_result.has_result
                  THEN [returned |-> CliSuccess(cli_result.result)]
                  ELSE [returned |-> CliSuccess(run.stdout)]

\* `except Exception as cli_error` (193-195) replaces whatever was raised.
BothFailed == Exc("RuntimeError", BothFailedMsg)

CliOutcome(run) ==
    LET attempt == CliAttempt(run)
    IN  IF "raised" \in DOMAIN attempt /\ IsException(attempt.raised)
        THEN [raised |-> BothFailed]
        ELSE attempt

\* ------------------------------------------------------------------ state
VARIABLES
    pc,               \* position of the run in run_claude_sdk
    request,          \* the arguments of the call
    default_options,  \* the merged options dict
    claude_options,   \* the options object handed to query()
    ctor_calls,       \* number of ClaudeCodeOptions(...) calls
    query_calls,      \* number of query() calls
    cli_calls,        \* number of subprocess.run calls
    messages,         \* the buffered events
    query_error,      \* the exception the stream raised, if any
    cli_run,          \* what subprocess.run did, if it ran
    returned,         \* the dict returned to the caller, if any
    raised,           \* the exception that escaped to the caller, if any
    cli_cmd,          \* the arguments of the claude CLI command, if built
    active_sessions,  \* the session registry: session key -> token
    handlers,         \* the command handlers in progress, one per request
    bot_user_id,      \* the bot's own user id, None until looked up
    inbox,            \* message events Slack has yet to deliver to the app
    handled           \* history: what handle_message did for each event

\* The state of the message-handling layer.
mvars == <<bot_user_id, inbox, handled>>

\* The state outside run_claude_sdk.
hvars == <<active_sessions, handlers, mvars>>

vars == <<pc, request, default_options, claude_options, ctor_calls,
          query_calls, cli_calls, messages, query_error, cli_run,
          returned, raised, cli_cmd, active_sessions, handlers,
          bot_user_id, inbox, handled>>

Init ==
    /\ pc = "build_options"
    /\ request \in Requests
    /\ default_options = Nothing
    /\ claude_options = Nothing
    /\ ctor_calls = 0
    /\ query_calls = 0
    /\ cli_calls = 0
    /\ messages = <<>>
    /\ query_error = Nothing
    /\ cli_run = Nothing
    /\ returned = Nothing
    /\ raised = Nothing
    /\ cli_cmd = Nothing
    /\ bot_user_id = None
    /\ inbox = <<>>
    /\ handled = <<>>
    /\ active_sessions = <<>>
    /\ handlers = <<>>

\* The merge without lines 106-107.
MergedOptions_noresume(req) ==
    [max_turns |-> IF req.options # Nothing THEN req.options[1] ELSE MAX_TURNS,
     cwd |-> IF req.working_dir # None THEN req.working_dir ELSE DEFAULT_REPO_PATH,
     model |-> ANTHROPIC_MODEL,
     resume |-> None]

\* Lines 90-107.
MergedOptions(req) ==
    [max_turns |-> IF req.options # Nothing THEN req.options[1] ELSE MAX_TURNS,
     cwd |-> IF req.working_dir # None THEN req.working_dir ELSE DEFAULT_REPO_PATH,
     model |-> ANTHROPIC_MODEL,
     resume |-> req.session_id]

\* The retry built from the default budget instead of the merged one.
MinimalOptions_default(opts) ==
    [max_turns |-> MAX_TURNS, cwd |-> None, model |-> None, resume |-> None]

MinimalOptions(opts) ==
    [max_turns |-> opts.max_turns, cwd |-> None, model |-> None, resume |-> None]

\* The fallback command line (147-151) and its working directory (157).
CliCmd(prompt, opts) ==
    [prompt |-> prompt, max_turns |-> opts.max_turns, cwd |-> opts.cwd]

\* The outer handler `except Exception as e` (237-255): an Exception becomes
\* a failure result, anything else escapes to the caller.
Handle(e) ==
    IF IsException(e)
    THEN /\ returned' = Some(ErrorResult(e))
         /\ raised' = raised
    ELSE /\ raised' = Some(e)
         /\ returned' = returned

\* ClaudeCodeOptions(**default_options) accepts the merged options (109-110).
BuildOptions ==
    /\ pc = "build_options"
    /\ default_options' = Some(MergedOptions(request))
    /\ claude_options' = Some(MergedOptions(request))
    /\ ctor_calls' = ctor_calls + 1
    /\ pc' = "query"
    /\ query_calls' = query_calls + 1
    /\ UNCHANGED <<request, cli_calls, messages, query_error, cli_run,
                   returned, raised>>
    /\ UNCHANGED cli_cmd
    /\ UNCHANGED hvars

\* The constructor raises TypeError: retry with max_turns only (111-116).
BuildOptionsTypeError ==
    /\ pc = "build_options"
    /\ default_options' = Some(MergedOptions(request))
    /\ ctor_calls' = ctor_calls + 1
    /\ pc' = "minimal_options"
    /\ UNCHANGED <<request, claude_options, query_calls, cli_calls, messages,
                   query_error, cli_run, returned, raised>>
    /\ UNCHANGED cli_cmd
    /\ UNCHANGED hvars

\* The constructor raises an exception that is not a TypeError.
BuildOptionsError(msg) ==
    /\ pc = "build_options"
    /\ default_options' = Some(MergedOptions(request))
    /\ ctor_calls' = ctor_calls + 1
    /\ Handle(Exc("ValueError", msg))
    /\ pc' = "done"
    /\ UNCHANGED <<request, claude_options, query_calls, cli_calls, messages,
                   query_error, cli_run>>
    /\ UNCHANGED cli_cmd
    /\ UNCHANGED hvars

BuildMinimal ==
    /\ pc = "minimal_options"
    /\ claude_options' = Some(MinimalOptions(default_options[1]))
    /\ ctor_calls' = ctor_calls + 1
    /\ pc' = "query"
    /\ query_calls' = query_calls + 1
    /\ UNCHANGED <<request, default_options, cli_calls, messages, query_error,
                   cli_run, returned, raised>>
    /\ UNCHANGED cli_cmd
    /\ UNCHANGED hvars

BuildMinimalError(msg) ==
    /\ pc = "minimal_options"
    /\ ctor_calls' = ctor_calls + 1
    /\ Handle(Exc("TypeError", msg))
    /\ pc' = "done"
    /\ UNCHANGED <<request, default_options, claude_options, query_calls,
                   cli_calls, messages, query_error, cli_run>>
    /\ UNCHANGED cli_cmd
    /\ UNCHANGED hvars

\* `async for message in query(...)`: one more event arrives (125-130).
Receive(message) ==
    /\ pc = "query"
    /\ Len(messages) < MaxEvents
    /\ messages' = Append(messages, message)
    /\ UNCHANGED <<pc, request, default_options, claude_options, ctor_calls,
                   query_calls, cli_calls, query_error, cli_run, returned,
                   raised>>
    /\ UNCHANGED cli_cmd
    /\ UNCHANGED hvars

\* The stream ends normally: extract and return (199-235).
Complete ==
    /\ pc = "query"
    /\ returned' = Some(SuccessResult(messages))
    /\ pc' = "done"
    /\ UNCHANGED <<request, default_options, claude_options, ctor_calls,
                   query_calls, cli_calls, messages, query_error, cli_run,
                   raised>>
    /\ UNCHANGED cli_cmd
    /\ UNCHANGED hvars

\* The stream raises an Exception (131-197).
QueryRaises(msg) ==
    LET e == Exc("Exception", msg)
    IN  /\ pc = "query"
        /\ query_error' = Some(e)
        /\ IF IsTransient(e)
           THEN IF messages # <<>>
                THEN /\ returned' = Some(SuccessResult(messages))
                     /\ raised' = raised
                     /\ pc' = "done"
                ELSE /\ returned' = returned
                     /\ raised' = raised
                     /\ pc' = "cli_fallback"
           ELSE /\ Handle(e)
                /\ pc' = "done"
        /\ UNCHANGED <<request, default_options, claude_options, ctor_calls,
                       query_calls, cli_calls, messages, cli_run>>
        /\ UNCHANGED cli_cmd
        /\ UNCHANGED hvars

\* The caller's task is cancelled while awaiting the next event:
\* CancelledError is thrown into the `async for`.
Cancel ==
    /\ pc = "query"
    /\ query_error' = Some(Exc("CancelledError", <<>>))
    /\ Handle(Exc("CancelledError", <<>>))
    /\ pc' = "done"
    /\ UNCHANGED <<request, default_options, claude_options, ctor_calls,
                   query_calls, cli_calls, messages, cli_run>>
    /\ UNCHANGED cli_cmd
    /\ UNCHANGED hvars

\* subprocess.run of the claude CLI and what follows it (142-195, 237-255).
RunCli(run) ==
    /\ pc = "cli_fallback"
    /\ cli_run' = Some(run)
    /\ cli_cmd' = Some(CliCmd(request.prompt, default_options[1]))
    /\ cli_calls' = cli_calls + 1
    /\ LET out == CliOutcome(run)
       IN  IF "returned" \in DOMAIN out
           THEN /\ returned' = Some(out.returned)
                /\ raised' = raised
           ELSE Handle(out.raised)
    /\ pc' = "done"
    /\ UNCHANGED <<request, default_options, claude_options, ctor_calls,
                   query_calls, messages, query_error>>
    /\ UNCHANGED hvars

Next ==
    \/ BuildOptions
    \/ BuildOptionsTypeError
    \/ \E msg \in CtorErrMsgs : BuildOptionsError(msg)
    \/ BuildMinimal
    \/ \E msg \in CtorErrMsgs : BuildMinimalError(msg)
    \/ \E message \in Events : Receive(message)
    \/ Complete
    \/ \E msg \in ErrMsgs : QueryRaises(msg)
    \/ Cancel
    \/ \E run \in CliRuns : RunCli(run)

Spec == Init /\ [][Next]_vars

\* The steps the program takes by itself always happen: a constructor call
\* returns or raises, and subprocess.run ends within its 300 s timeout.
\* Whether the stream yields, ends or raises is up to the backend, and the
\* `async for` (125-128) sets no deadline on it.
ProgramStep ==
    \/ BuildOptions
    \/ BuildOptionsTypeError
    \/ \E msg \in CtorErrMsgs : BuildOptionsError(msg)
    \/ BuildMinimal
    \/ \E msg \in CtorErrMsgs : BuildMinimalError(msg)
    \/ \E run \in CliRuns : RunCli(run)

LiveSpec == Init /\ [][Next]_vars /\ WF_vars(ProgramStep)

\* ---------------------------------------------------- delivery (257-300)
\* A fixed fragment of a response counts as one character.
TruncationNote == <<"\n", "\n", "[... (response truncated, see attached file for full output)]">>
UsageMsg(command) == <<"[usage of ", command, "]">>
WorkingMsg(text) == <<"[Claude Code SDK is working on: ">> \o text \o <<"]">>
TaskCompleted == <<"[Task Completed]", "\n", "\n">>
ErrorPrefix == <<"[Error]: ">>
CostSuffix == <<"\n", "\n", "[_Cost: $cost_]">>
PrCreated == <<"[Pull Request Created!]", "\n", "\n">>
PrFailed == <<"[PR Creation Failed]", "\n", "\n">>
FeatureHeader(text) == <<"[Feature ">> \o text \o <<" completed!]">>
FeatureFailed == <<"[Feature creation failed: ]">>
ReviewHeader(text) == <<"[Code Review Results for ">> \o text \o <<"]">>
ReviewFailed == <<"[Code review failed: ]">>

\* The three backquotes that open or close a code block.
Fence == "[fence]"
WordChars == {"x", "p", "y", "t", "o", "k"} \cup Digits

\* re.sub(fence (\w+)? \n (.*?) fence, fence \2 fence, text, flags=re.DOTALL):
\* the language tag and the newline after an opening fence are removed.
BodyStart(text, i) ==
    LET after == {j \in (i + 1)..Len(text) : text[j] \notin WordChars}
    IN  IF after = {} THEN 0
        ELSE LET j == CHOOSE j \in after : \A j2 \in after : j <= j2
             IN  IF text[j] = "\n" THEN j ELSE 0

BlockEnd(text, j) ==
    LET closing == {k \in (j + 1)..Len(text) : text[k] = Fence}
    IN  IF j = 0 \/ closing = {} THEN 0
        ELSE CHOOSE k \in closing : \A k2 \in closing : k <= k2

RECURSIVE format_code_blocks(_)
format_code_blocks(text) ==
    LET opens == {i \in 1..Len(text) :
                    text[i] = Fence /\ BlockEnd(text, BodyStart(text, i)) # 0}
    IN  IF opens = {} THEN text
        ELSE LET i == CHOOSE i \in opens : \A i2 \in opens : i <= i2
                 j == BodyStart(text, i)
                 k == BlockEnd(text, j)
             IN  SubSeq(text, 1, i) \o SubSeq(text, j + 1, k)
                 \o format_code_blocks(SubSeq(text, k + 1, Len(text)))

\* send_response(channel, text, thread_ts, blocks): the Slack API calls.
send_response(text, blocks) ==
    LET formatted_text == format_code_blocks(text)
    IN  IF Len(formatted_text) > MAX_MESSAGE_LENGTH
        THEN << [api |-> "chat_postMessage",
                 text |-> SubSeq(formatted_text, 1, TruncatedLen) \o TruncationNote,
                 blocks |-> blocks],
                [api |-> "files_upload_v2", text |-> text, blocks |-> Nothing] >>
        ELSE << [api |-> "chat_postMessage", text |-> formatted_text,
                 blocks |-> blocks] >>

\* `result.get('cost', 0) > 0` raises TypeError when the cost is None.
CostComparable(result) == "cost" \notin DOMAIN result \/ result.cost # Nothing

CostPositive(result) ==
    "cost" \in DOMAIN result /\ result.cost # Nothing /\ result.cost[1] > 0

\* The final response a handler builds from the result of its run: the
\* text and the blocks it hands to send_response.
FinalResponse(command, text, result) ==
    IF command = "/feature"
    THEN [text |-> <<>>,
          blocks |-> Some(<<FeatureHeader(text),
                            IF result.success THEN result.result
                            ELSE FeatureFailed \o result.result>>)]
    ELSE IF command = "/review"
    THEN [text |-> <<>>,
          blocks |-> Some(<<ReviewHeader(text),
                            IF result.success THEN result.result
                            ELSE ReviewFailed \o result.result>>)]
    ELSE IF command = "/pr"
    THEN [text |-> (IF result.success THEN PrCreated ELSE PrFailed) \o result.result,
          blocks |-> Nothing]
    ELSE [text |-> IF result.success
                   THEN TaskCompleted \o result.result
                        \o (IF CostPositive(result) THEN CostSuffix ELSE <<>>)
                   ELSE ErrorPrefix \o result.result,
          blocks |-> Nothing]

\* Whether building the final response raises: only handle_code_command
\* reads the cost, and only of a successful result.
FinalResponseRaises(command, result) ==
    /\ command \notin {"/feature", "/review", "/pr"}
    /\ result.success
    /\ ~CostComparable(result)

\* The API calls of one send_response, each marked with what it is for.
Posts(kind, text, blocks) ==
    LET calls == send_response(text, blocks)
    IN  [i \in 1..Len(calls) |->
            [kind |-> kind, api |-> calls[i].api, text |-> calls[i].text,
             blocks |-> calls[i].blocks]]

\* ------------------------------------------- command handlers (323-581)
\* Two requests are handled at a time, each by its own task on the one
\* event loop: a step of a handler runs from one await to the next.
Procs == {"r1", "r2"}

\* The user id Slack gives the bot (auth_test, 687-688).
BotId == "B"

\* The commands handle_slash_command routes to the four handlers.
CommandsOf(p) ==
    IF p = "r1" THEN {"/code", "/feature"} ELSE {"/review", "/pr"}

\* session_key = f"{user}:{channel}"
SessionKey(user, channel) == <<user, ":", channel>>

\* active_sessions[key] = token
Put_setdefault(d, key, token) ==
    [k \in DOMAIN d \cup {key} |-> IF k \in DOMAIN d THEN d[k] ELSE token]

Put(d, key, token) ==
    [k \in DOMAIN d \cup {key} |-> IF k = key THEN token ELSE d[k]]

\* `if result.get('session_id'):` written as `is not None`.
ShouldPut_notNone(result) == get(result, "session_id") # None

\* `if result.get('session_id'):`
ShouldPut(result) ==
    get(result, "session_id") # None /\ get(result, "session_id") # ""

\* The token the backend gives the session of a run.
RunToken(p) == IF p = "r1" THEN "s1" ELSE "s2"

\* The events the backend streams to the run of request p.
HEvents(p) ==
    { [type |-> "content", content |-> <<TextItem(ShortText)>>],
      Outcome("success", RunToken(p), LongText),
      [Outcome("success", "", LongText) EXCEPT !.total_cost_usd = Nothing] }

HErrMsgs == { <<"JSONDecodeError">>, <<"connection reset by peer">> }

HCliRuns ==
    { [kind |-> "timeout"],
      [kind |-> "exit", returncode |-> 0, stdout |-> <<"o", "k">>] }

\* A request as it arrives: r1 is a /code or /feature command of user U1,
\* r2 a /review or /pr command of U1 or U2, both in channel C1; a command
\* may come without text.
NewHandler(command, text, user) ==
    [pc |-> "start", command |-> command, text |-> text,
     user |-> user, channel |-> "C1",
     session_id |-> None, options |-> None, resume |-> None,
     messages |-> <<>>, emitted |-> <<>>, put_seq |-> 0,
     query_error |-> Nothing, cli_run |-> Nothing,
     result |-> Nothing, sent |-> <<>>]

Arrivals(p) ==
    { NewHandler(c, t, u) :
        c \in CommandsOf(p), t \in {<<"t">>},
        u \in (IF p = "r1" THEN {"U1"} ELSE {"U1", "U2"}) }
    \cup { NewHandler("/code", <<>>, "U1") }

\* The key built from the channel alone.
KeyOf_channel(h) == SessionKey("", h.channel)

KeyOf(h) == SessionKey(h.user, h.channel)

\* The variables that play no part in the handler specification.
rvars == <<pc, request, default_options, claude_options, ctor_calls,
           query_calls, cli_calls, messages, query_error, cli_run,
           returned, raised, cli_cmd, mvars>>

\* The registry starts empty, or holds the token an earlier run left for
\* U1 in C1.
HInit ==
    /\ pc = "handlers"
    /\ request = [prompt |-> <<"p">>, session_id |-> None,
                  options |-> Nothing, working_dir |-> None]
    /\ default_options = Nothing
    /\ claude_options = Nothing
    /\ ctor_calls = 0
    /\ query_calls = 0
    /\ cli_calls = 0
    /\ messages = <<>>
    /\ query_error = Nothing
    /\ cli_run = Nothing
    /\ returned = Nothing
    /\ raised = Nothing
    /\ cli_cmd = Nothing
    /\ bot_user_id = BotId
    /\ inbox = <<>>
    /\ handled = <<>>
    /\ active_sessions \in { <<>>, Put(<<>>, SessionKey("U1", "C1"), "s0") }
    /\ handlers \in [Procs -> UNION {Arrivals(p) : p \in Procs}]
    /\ \A p \in Procs : handlers[p] \in Arrivals(p)

\* subprocess.run (155-168) is a plain blocking call made from a coroutine:
\* from the except clause that reaches it until the CLI exits or times
\* out, the one event loop runs no other task.
InFallback(p) == handlers[p].pc = "cli_fallback"

\* The event loop can run a step of request p.
LoopFree(p) == \A q \in Procs \ {p} : ~InFallback(q)

\* Up to the first await of a handler (325-354): the usage message for an
\* empty text; otherwise the registry Get and the working indicator.
HStart(p) ==
    LET h == handlers[p]
    IN  /\ h.pc = "start"
        /\ LoopFree(p)
        /\ IF h.text = <<>>
           THEN handlers' = [handlers EXCEPT
                    ![p].sent = @ \o Posts("usage", UsageMsg(h.command), Nothing),
                    ![p].pc = "finished"]
           ELSE handlers' = [handlers EXCEPT
                    ![p].session_id = get(active_sessions, KeyOf(h)),
                    ![p].sent = @ \o Posts("working", WorkingMsg(h.text), Nothing),
                    ![p].pc = "working"]
        /\ UNCHANGED active_sessions
        /\ UNCHANGED rvars

\* History: the rank of a Put among the Puts made so far (0: no Put).
PutSeq(result) ==
    IF ShouldPut(result)
    THEN 1 + Cardinality({q \in Procs : handlers[q].put_seq > 0})
    ELSE 0

\* A registry that stores a token only over the token the run had read.
Finish_cas(p, h, result) ==
    /\ handlers' = [handlers EXCEPT ![p] =
                       [h EXCEPT !.result = Some(result), !.pc = "respond",
                                 !.put_seq = PutSeq(result)]]
    /\ active_sessions' =
          IF /\ ShouldPut(result)
             /\ get(active_sessions, KeyOf(h)) = h.session_id
          THEN Put(active_sessions, KeyOf(h), result.session_id)
          ELSE active_sessions

\* The registry update left until after the final response.
Finish_deferred(p, h, result) ==
    /\ handlers' = [handlers EXCEPT ![p] =
                       [h EXCEPT !.result = Some(result), !.pc = "respond",
                                 !.put_seq = PutSeq(result)]]
    /\ active_sessions' = active_sessions

\* The run returned `result`: the registry update (364-366) follows with no
\* await in between; the final response is the next await.
Finish(p, h, result) ==
    /\ handlers' = [handlers EXCEPT ![p] =
                       [h EXCEPT !.result = Some(result), !.pc = "respond",
                                 !.put_seq = PutSeq(result)]]
    /\ active_sessions' =
          IF ShouldPut(result)
          THEN Put(active_sessions, KeyOf(h), result.session_id)
          ELSE active_sessions

\* run_claude_sdk starts: the options are accepted as merged, accepted on
\* the minimal retry, or rejected (90-116).
HBuild(p, cfg) ==
    LET h == [handlers[p] EXCEPT !.options = cfg]
    IN  /\ h.pc = "working"
        /\ LoopFree(p)
        /\ IF cfg = "rejected"
           THEN Finish(p, h, ErrorResult(Exc("TypeError",
                    <<"__init__() got an unexpected keyword argument 'max_turns'">>)))
           ELSE /\ handlers' = [handlers EXCEPT ![p] =
                       [h EXCEPT
                          !.resume = IF cfg = "merged" /\ h.session_id # ""
                                     THEN h.session_id ELSE None,
                          !.pc = "query"]]
                /\ UNCHANGED active_sessions
        /\ UNCHANGED rvars

\* The list a run appends its events to: its own local `messages` (121).
BufferOf_shared(p) == "r1"

BufferOf(p) == p

HReceive(p, message) ==
    /\ handlers[p].pc = "query"
    /\ LoopFree(p)
    /\ Len(handlers[p].emitted) < HMaxEvents
    /\ handlers' = [q \in Procs |->
          LET h1 == IF q = p
                    THEN [handlers[q] EXCEPT !.emitted = Append(@, message)]
                    ELSE handlers[q]
          IN  IF q = BufferOf(p)
              THEN [h1 EXCEPT !.messages = Append(@, message)]
              ELSE h1]
    /\ UNCHANGED active_sessions
    /\ UNCHANGED rvars

HComplete(p) ==
    LET h == handlers[p]
    IN  /\ h.pc = "query"
        /\ LoopFree(p)
        /\ Finish(p, h, SuccessResult(handlers[BufferOf(p)].messages))
        /\ UNCHANGED rvars

HQueryRaises(p, msg) ==
    LET h == [handlers[p] EXCEPT !.query_error = Some(Exc("Exception", msg))]
        buffered == handlers[BufferOf(p)].messages
    IN  /\ handlers[p].pc = "query"
        /\ LoopFree(p)
        /\ IF IsTransient(Exc("Exception", msg))
           THEN IF buffered # <<>>
                THEN Finish(p, h, SuccessResult(buffered))
                ELSE /\ handlers' = [handlers EXCEPT ![p] =
                                        [h EXCEPT !.pc = "cli_fallback"]]
                     /\ UNCHANGED active_sessions
           ELSE Finish(p, h, ErrorResult(Exc("Exception", msg)))
        /\ UNCHANGED rvars

\* The handler's task is cancelled while its run awaits the stream: the
\* CancelledError leaves run_claude_sdk and the handler.
HCancel(p) ==
    /\ handlers[p].pc = "query"
    /\ LoopFree(p)
    /\ handlers' = [handlers EXCEPT
            ![p].query_error = Some(Exc("CancelledError", <<>>)),
            ![p].pc = "aborted"]
    /\ UNCHANGED active_sessions
    /\ UNCHANGED rvars

\* subprocess.run blocks the event loop until the CLI ends (155-168).
HRunCli(p, run) ==
    LET h == [handlers[p] EXCEPT !.cli_run = Some(run)]
        out == CliOutcome(run)
    IN  /\ handlers[p].pc = "cli_fallback"
        /\ LoopFree(p)
        /\ IF "returned" \in DOMAIN out
           THEN Finish(p, h, out.returned)
           ELSE Finish(p, h, ErrorResult(out.raised))
        /\ UNCHANGED rvars

\* The final response is built and handed to send_response (368-377);
\* an exception raised while building it ends the handler.
HRespond(p) ==
    LET h == handlers[p]
        response == FinalResponse(h.command, h.text, h.result[1])
    IN  /\ h.pc = "respond"
        /\ LoopFree(p)
        /\ IF FinalResponseRaises(h.command, h.result[1])
           THEN handlers' = [handlers EXCEPT ![p].pc = "crashed"]
           ELSE handlers' = [handlers EXCEPT
                    ![p].sent = @ \o Posts("final", response.text, response.blocks),
                    ![p].pc = "finished"]
    /\ UNCHANGED active_sessions
    /\ UNCHANGED rvars

HNext ==
    \E p \in Procs :
        \/ HStart(p)
        \/ \E cfg \in {"merged", "minimal", "rejected"} : HBuild(p, cfg)
        \/ \E message \in HEvents(p) : HReceive(p, message)
        \/ HComplete(p)
        \/ \E msg \in HErrMsgs : HQueryRaises(p, msg)
        \/ HCancel(p)
        \/ \E run \in HCliRuns : HRunCli(p, run)
        \/ HRespond(p)

HandlerSpec == HInit /\ [][HNext]_vars

\* ------------------------------------------------------------ the claims
Done == pc = "done"
Returned == returned # Nothing
Result == returned[1]

StreamRaised == query_error # Nothing
CallerCancelled == StreamRaised /\ query_error[1].cls = "CancelledError"
TransientRaised == StreamRaised /\ ~CallerCancelled /\ IsTransient(query_error[1])
CliRan == cli_run # Nothing
CliExitedZero == CliRan /\ cli_run[1].kind = "exit" /\ cli_run[1].returncode = 0
CliFailed == CliRan /\ ~CliExitedZero

\* C1: for every request and every backend behaviour (the options
\* constructor rejecting once or twice, a stream error with any message
\* after any number of events, every fallback failure), a run the caller did
\* not cancel ends by returning a result record with a success flag and no
\* exception escapes.
C1_NeverRaises ==
    (Done /\ ~CallerCancelled) =>
        /\ Returned
        /\ raised = Nothing
        /\ Result.success \in BOOLEAN

\* The fallback failed after a transient error and the call still returned.
C1_Witness ==
    /\ Done /\ CliFailed /\ Returned /\ ~Result.success /\ ctor_calls = 2

\* C2: a run cancelled while it consumes the stream returns a failed
\* result.
C2_CancelReturnsFailed ==
    (Done /\ CallerCancelled) => (Returned /\ ~Result.success)

\* An authoritative outcome event: subtype success or error_max_turns.
IsSuccessOutcome(m) == m.type = "outcome" /\ m.subtype = "success"
HasText(m) == m.result # NoneText /\ Len(m.result) > 0
StreamCompleted == Done /\ query_calls = 1 /\ ~StreamRaised

\* C3: a stream that completes and contains a success outcome carrying a
\* result text yields success=true and that event's result text as the
\* result text, whatever the length of the text.
C3_SuccessTextReturned ==
    (StreamCompleted /\ \E i \in 1..Len(messages) :
                           IsSuccessOutcome(messages[i]) /\ HasText(messages[i])) =>
        /\ Returned
        /\ Result.success
        /\ \E i \in 1..Len(messages) :
              /\ IsSuccessOutcome(messages[i])
              /\ Result.result = messages[i].result

\* What the fallback invoker hands back for a captured stdout: the result
\* field of a structured object, the raw text otherwise.
FallbackOutput(stdout) ==
    LET j == json_loads(stdout)
    IN  IF j.ok /\ j.type = "dict" /\ j.has_result THEN j.result ELSE stdout

ZeroBuffered == messages = <<>>

\* C4: a transient error with zero buffered events invokes the fallback
\* exactly once and never retries the primary call; a fallback that exits
\* zero gives success=true, the fallback output as text, no token, cost 0.
C4_FallbackOnce ==
    (Done /\ TransientRaised /\ ZeroBuffered) =>
        /\ cli_calls = 1
        /\ query_calls = 1
        /\ CliExitedZero =>
              /\ Returned
              /\ Result.success
              /\ Result.result = FallbackOutput(cli_run[1].stdout)
              /\ get(Result, "session_id") = None
              /\ get(Result, "cost") = Some(0)

\* ---- the buffered content, stated independently of the extraction loop
IsContent(m) == m.type = "content"
IsAuthoritative(m) == m.type = "outcome" /\ m.subtype \in {"success", "error_max_turns"}
HasContentEvent == \E i \in 1..Len(messages) : IsContent(messages[i])

\* Positions (event, item) of the text items, in arrival order.
TextPositions ==
    { <<i, k>> \in (1..Len(messages)) \X (1..3) :
        /\ IsContent(messages[i])
        /\ k <= Len(messages[i].content)
        /\ messages[i].content[k].kind = "text" }

Before(p, q) == p[1] < q[1] \/ (p[1] = q[1] /\ p[2] < q[2])

\* The n-th text position in arrival order.
NthPosition(n) ==
    CHOOSE p \in TextPositions :
        Cardinality({q \in TextPositions : Before(q, p)}) = n - 1

IsTextItem(item) == item.kind = "text"
TextsIn(m) ==
    IF IsContent(m)
    THEN LET items == SelectSeq(m.content, IsTextItem)
         IN  [k \in 1..Len(items) |-> items[k].text]
    ELSE <<>>

\* The text items of the first i buffered events, in arrival order.
RECURSIVE TextsUpTo(_)
TextsUpTo(i) == IF i = 0 THEN <<>> ELSE TextsUpTo(i - 1) \o TextsIn(messages[i])

BufferedTexts == TextsUpTo(Len(messages))

RECURSIVE Concat(_)
Concat(texts) ==
    IF Len(texts) = 0 THEN <<>>
    ELSE IF Len(texts) = 1 THEN texts[1]
    ELSE Concat(SubSeq(texts, 1, Len(texts) - 1)) \o <<"\n", "\n">> \o texts[Len(texts)]

\* The first and the last position of t that hold no whitespace (0: none).
RECURSIVE FirstVisible(_, _)
FirstVisible(t, i) ==
    IF i > Len(t) THEN 0
    ELSE IF t[i] \notin Whitespace THEN i ELSE FirstVisible(t, i + 1)

RECURSIVE LastVisible(_, _)
LastVisible(t, i) ==
    IF i = 0 THEN 0
    ELSE IF t[i] \notin Whitespace THEN i ELSE LastVisible(t, i - 1)

\* Length of a text without its leading and trailing whitespace.
TrimmedLen(t) ==
    LET first == FirstVisible(t, 1)
    IN  IF first = 0 THEN 0 ELSE LastVisible(t, Len(t)) - first + 1

Trimmed(t) ==
    LET first == FirstVisible(t, 1)
    IN  IF first = 0 THEN <<>> ELSE SubSeq(t, first, LastVisible(t, Len(t)))

\* The result text of the last authoritative outcome, NoneText if none.
LastAuthoritativeText ==
    LET idx == {i \in 1..Len(messages) : IsAuthoritative(messages[i])}
    IN  IF idx = {} THEN NoneText
        ELSE messages[CHOOSE i \in idx : \A j \in idx : j <= i].result

Degraded == Done /\ TransientRaised /\ HasContentEvent
DegradedWithText ==
    /\ Degraded
    /\ \E p \in TextPositions : Len(messages[p[1]].content[p[2]].text) > 0

FinalizedText ==
    IF CliRan THEN FallbackOutput(cli_run[1].stdout)
    ELSE LET auth == LastAuthoritativeText
         IN  IF auth # NoneText /\ Len(auth) > 0 THEN auth
             ELSE Concat(BufferedTexts)

Succeeded == Done /\ Returned /\ Result.success

\* C6: whenever the finalized text of a successful run is empty or shorter
\* than 50 characters after trimming, the result text is that text with
\* the continuation notice appended, on every path.
C6_ShortTextGetsNotice ==
    (Succeeded /\ TrimmedLen(FinalizedText) < MinContentLen) =>
        \/ Result.result = Trimmed(FinalizedText \o IncompleteNotice)
        \/ Result.result = Trimmed(FinalizedText \o InterruptedNotice)

\* C7: every returned result has a non-empty result text.
C7_ResultNeverEmpty ==
    (Done /\ Returned) => Len(Result.result) > 0

\* The error exits named by C8, read off the backend's behaviour.
ConfigFailed == Done /\ query_calls = 0
NonTransientRaised == StreamRaised /\ ~CallerCancelled /\ ~IsTransient(query_error[1])
FallbackFailed ==
    /\ TransientRaised /\ ZeroBuffered /\ CliRan
    /\ \/ cli_run[1].kind \in {"spawn_failure", "timeout"}
       \/ cli_run[1].kind = "exit" /\ cli_run[1].returncode # 0

\* C8: success=false exactly when configuration construction failed, the
\* stream raised a non-transient error, or a transient error with zero
\* buffered events was followed by a failed fallback.
C8_FailureIffErrorExit ==
    (Done /\ Returned) =>
        (~Result.success <=> (ConfigFailed \/ NonTransientRaised \/ FallbackFailed))

FixedMessages == {TimeoutMsg, CwdMsg, ParsingErrorMsg, FocusedMsg, BothFailedMsg}

\* C9: on every failure exit the result text is one of the fixed
\* user-facing messages, never the raw error string.
C9_FailureTextIsFixed ==
    (Done /\ Returned /\ ~Result.success) => Result.result \in FixedMessages

\* C10: a transient error with zero buffered events followed by a failed
\* fallback (non-zero exit, timeout, spawn failure) returns success=false
\* with the break-into-smaller-parts message, unchanged by the rewriting.
C10_BothFailedMessage ==
    (Done /\ FallbackFailed) =>
        /\ Returned
        /\ ~Result.success
        /\ Result.result = BothFailedMsg
        /\ Result.error = BothFailedMsg

\* The fallback timed out and the fixed message was returned.
C10_Witness ==
    /\ Done /\ FallbackFailed /\ cli_run[1].kind = "timeout"
    /\ Returned /\ Result.result = BothFailedMsg

\* C11: every call eventually ends (with a returned result), also when the
\* stream never emits a further event and never completes.
C11_EventuallyReturns == <>Done

StreamOpened == query_calls = 1
HasToken == request.session_id # None /\ request.session_id # ""

\* C17 as stated: whenever the request carries a continuation token, the
\* configuration the stream is opened with carries a resume instruction
\* for that token, on the merged and on the minimal path.
C17_ResumeOnEveryPath ==
    (StreamOpened /\ HasToken) => claude_options[1].resume = request.session_id

\* C17 amended: whenever the request carries a continuation token and the
\* merged configuration is accepted, the stream is opened with a resume
\* instruction for exactly that token; when the merged configuration was
\* rejected and the minimal one is used, the stream is opened with the turn
\* budget only and no resume instruction.
C17_ResumeOnMergedPath ==
    (StreamOpened /\ HasToken) =>
        /\ ctor_calls = 1 => claude_options[1].resume = request.session_id
        /\ ctor_calls = 2 =>
              /\ claude_options[1].resume = None
              /\ claude_options[1].cwd = None
              /\ claude_options[1].model = None

\* The stream was opened with the merged configuration of a request that
\* carries a token.
C17_Witness ==
    /\ StreamOpened /\ HasToken /\ ctor_calls = 1
    /\ claude_options[1].resume = "s0"

\* C18: a request with an empty prompt never yields success=true.
C18_EmptyPromptFails ==
    (Done /\ Returned /\ request.prompt = <<>>) => ~Result.success

\* C19: a rejected merged configuration is retried exactly once with the
\* minimal one; when configuration construction fails the run returns
\* success=false and neither the stream nor the fallback is invoked.
C19_ConfigFailsClosed ==
    (Done /\ ~StreamOpened) =>
        /\ ctor_calls = 2
        /\ Returned /\ ~Result.success
        /\ cli_calls = 0

Budget == IF request.options # Nothing THEN request.options[1] ELSE MAX_TURNS

\* C20: the caller's turn-budget override, or the default when there is
\* none, is the budget of the configuration the stream is opened with
\* (merged or minimal) and of the fallback command.
C20_BudgetOnEveryPath ==
    /\ claude_options # Nothing => claude_options[1].max_turns = Budget
    /\ cli_cmd # Nothing => cli_cmd[1].max_turns = Budget

\* The fallback ran with the override after the minimal retry.
C20_Witness ==
    /\ request.options = Some(MAX_TURNS + 5)
    /\ ctor_calls = 2
    /\ claude_options # Nothing /\ claude_options[1].max_turns = MAX_TURNS + 5
    /\ cli_cmd # Nothing /\ cli_cmd[1].max_turns = MAX_TURNS + 5

\* --------------------------------------- message events (583-617, 647-692)
HELP_MESSAGE == <<"[Claude Code SDK Bot - Help]">>
ProvideRequestMsg == <<"[Please provide a request. Type help for usage instructions.]">>

\* f'<@{bot_user_id}>'
Mention(id) == IF id = None THEN "<@None>" ELSE "<@B>"

\* re.sub(f'<@{bot_user_id}>', '', text)
RECURSIVE RemoveMention(_, _)
RemoveMention(text, id) ==
    IF text = <<>> THEN <<>>
    ELSE (IF Head(text) = Mention(id) THEN <<>> ELSE <<Head(text)>>)
         \o RemoveMention(Tail(text), id)

text_lower(text) == [i \in 1..Len(text) |-> IF text[i] = "H" THEN "h" ELSE text[i]]

HelpTexts == { <<"h", "e", "l", "p">>, <<"h", "e", "l", "p", " ", "m", "e">>, <<"?">> }

\* The texts users write to the bot.
MTexts ==
    { <<"t">>, <<"H", "e", "l", "p">>, <<"<@B>", " ">>, <<"<@B>", " ", "t">> }

MessageEvent(type, user, text) ==
    [type |-> type, user |-> user, channel |-> "C1", text |-> text]

\* The results of the runs the message handler starts.
MResults ==
    { SuccessResult(<<Outcome("success", "s1", LongText)>>),
      ErrorResult(Exc("Exception", <<"connection reset by peer">>)) }

\* `if user == bot_user_id: return` (593)
IsOwnMessage(user, id) == user = id

\* What handle_message does for one event, its run returning `result`:
\* the responses it sends, whether it ran the backend, and the registry.
handle_message(event, id, result, registry) ==
    LET text == strip(RemoveMention(event.text, id))
        key == SessionKey(event.user, event.channel)
    IN  IF IsOwnMessage(event.user, id)
        THEN [sent |-> <<>>, ran |-> FALSE, registry |-> registry]
        ELSE IF text_lower(text) \in HelpTexts
        THEN [sent |-> Posts("help", HELP_MESSAGE, Nothing), ran |-> FALSE,
              registry |-> registry]
        ELSE IF text = <<>>
        THEN [sent |-> Posts("usage", ProvideRequestMsg, Nothing), ran |-> FALSE,
              registry |-> registry]
        ELSE [sent |-> Posts("working", WorkingMsg(text), Nothing)
                       \o (IF FinalResponseRaises("message", result) THEN <<>>
                           ELSE Posts("final",
                                      FinalResponse("message", text, result).text,
                                      Nothing)),
              ran |-> TRUE,
              registry |-> IF ShouldPut(result)
                           THEN Put(registry, key, result.session_id)
                           ELSE registry]

\* The message events Slack sends the app for the bot's own posts.
Echoes(sent) ==
    [i \in 1..Len(sent) |-> MessageEvent("message", BotId, sent[i].text)]

MInit ==
    /\ pc = "startup"
    /\ request = [prompt |-> <<"p">>, session_id |-> None,
                  options |-> Nothing, working_dir |-> None]
    /\ default_options = Nothing
    /\ claude_options = Nothing
    /\ ctor_calls = 0
    /\ query_calls = 0
    /\ cli_calls = 0
    /\ messages = <<>>
    /\ query_error = Nothing
    /\ cli_run = Nothing
    /\ returned = Nothing
    /\ raised = Nothing
    /\ cli_cmd = Nothing
    /\ active_sessions = <<>>
    /\ handlers = <<>>
    /\ bot_user_id = None
    /\ inbox = <<>>
    /\ handled = <<>>

mfixed == <<request, default_options, claude_options, ctor_calls, query_calls,
            cli_calls, messages, query_error, cli_run, returned, raised,
            cli_cmd, handlers>>

\* main looks the bot's user id up; on failure it stays None (685-692).
AuthTest(ok) ==
    /\ pc = "startup"
    /\ pc' = "serving"
    /\ bot_user_id' = IF ok THEN BotId ELSE None
    /\ UNCHANGED <<inbox, handled, active_sessions>>
    /\ UNCHANGED mfixed

\* A user writes to the bot, in a message or by mentioning it.
UserPosts(type, text) ==
    /\ pc = "serving"
    /\ Len(handled) + Len(inbox) < MaxMessages
    /\ inbox' = Append(inbox, MessageEvent(type, "U1", text))
    /\ UNCHANGED <<pc, bot_user_id, handled, active_sessions>>
    /\ UNCHANGED mfixed

\* process_event hands the next message event to handle_message (652-662);
\* what the bot posts comes back as message events of the bot.
HandleMessage(result) ==
    /\ pc = "serving"
    /\ inbox # <<>>
    /\ Len(handled) < MaxMessages
    /\ LET event == Head(inbox)
           done == handle_message(event, bot_user_id, result, active_sessions)
       IN  /\ inbox' = Tail(inbox) \o Echoes(done.sent)
           /\ handled' = Append(handled, [user |-> event.user,
                                          replies |-> Len(done.sent),
                                          ran |-> done.ran])
           /\ active_sessions' = done.registry
    /\ UNCHANGED <<pc, bot_user_id>>
    /\ UNCHANGED mfixed

MNext ==
    \/ \E ok \in BOOLEAN : AuthTest(ok)
    \/ \E type \in {"message", "app_mention"}, text \in MTexts : UserPosts(type, text)
    \/ \E result \in MResults : HandleMessage(result)

MessageSpec == MInit /\ [][MNext]_vars

\* C30: a message event authored by the bot itself never triggers a reply
\* or a backend run, also when the bot's user id is unset because its
\* lookup failed at startup.
C30_OwnMessagesIgnored ==
    \A i \in 1..Len(handled) :
        handled[i].user = BotId => (handled[i].replies = 0 /\ ~handled[i].ran)

\* ------------------------------------------- delivery of final responses
\* The handlers at the point where their run has returned, for results of
\* every length around MAX_MESSAGE_LENGTH.
XText(n) == [i \in 1..n |-> "x"]
FencedText(n) == <<Fence, "p", "y", "\n">> \o XText(n - 5) \o <<Fence>>

DTexts ==
    { LongText,
      XText(MAX_MESSAGE_LENGTH - Len(TaskCompleted)),
      XText(MAX_MESSAGE_LENGTH),
      XText(MAX_MESSAGE_LENGTH + 1),
      FencedText(MAX_MESSAGE_LENGTH - 1) }

DResults ==
    { [success |-> TRUE, result |-> t, session_id |-> None, cost |-> c] :
        t \in DTexts, c \in {Some(0), Some(1), Nothing} }
    \cup { ErrorResult(Exc("Exception", <<"connection reset by peer">>)),
           ErrorResult(Exc("RuntimeError", BothFailedMsg)) }

\* A plain message is handled by handle_code_command (617).
DCommands == {"/code", "/feature", "/review", "/pr", "message"}

Returning(command, result) ==
    [NewHandler(command, <<"t">>, "U1") EXCEPT
        !.pc = "respond", !.result = Some(result),
        !.sent = Posts("working", WorkingMsg(<<"t">>), Nothing)]

DInit ==
    /\ pc = "handlers"
    /\ request = [prompt |-> <<"p">>, session_id |-> None,
                  options |-> Nothing, working_dir |-> None]
    /\ default_options = Nothing
    /\ claude_options = Nothing
    /\ ctor_calls = 0
    /\ query_calls = 0
    /\ cli_calls = 0
    /\ messages = <<>>
    /\ query_error = Nothing
    /\ cli_run = Nothing
    /\ returned = Nothing
    /\ raised = Nothing
    /\ cli_cmd = Nothing
    /\ bot_user_id = BotId
    /\ inbox = <<>>
    /\ handled = <<>>
    /\ active_sessions = <<>>
    /\ handlers \in [Procs -> { Returning(c, r) : c \in DCommands, r \in DResults }]

DNext == \E p \in Procs : HRespond(p)

DeliverySpec == DInit /\ [][DNext]_vars

IsFinalCall(call) == call.kind = "final"
FinalCalls(h) == SelectSeq(h.sent, IsFinalCall)

\* The result payload a handler hands to delivery: the response text, or
\* the body block when the response is sent as blocks.
PayloadOf(h) ==
    LET response == FinalResponse(h.command, h.text, h.result[1])
    IN  IF response.blocks # Nothing THEN response.blocks[1][2] ELSE response.text

\* C22: for every command, a payload longer than the maximum length is
\* delivered as one truncated inline message followed by one attachment
\* with the full text, and any other payload as exactly one inline
\* message and no attachment.
C22_DeliveryByLength ==
    \A p \in Procs :
        handlers[p].pc = "finished" =>
            LET calls == FinalCalls(handlers[p])
                payload == PayloadOf(handlers[p])
            IN  IF Len(format_code_blocks(payload)) > MAX_MESSAGE_LENGTH
                THEN /\ Len(calls) = 2
                     /\ calls[1].api = "chat_postMessage"
                     /\ Len(calls[1].text) < Len(payload)
                     /\ calls[2].api = "files_upload_v2"
                     /\ calls[2].text = payload
                ELSE /\ Len(calls) = 1
                     /\ calls[1].api = "chat_postMessage"

\* ------------------------------------- claims about result finalization
AuthoritativeIdx == {i \in 1..Len(messages) : IsAuthoritative(messages[i])}
LastAuthoritative ==
    messages[CHOOSE i \in AuthoritativeIdx : \A j \in AuthoritativeIdx : j <= i]
StreamSucceeded == Succeeded /\ ~CliRan

NoticeAtoms == {IncompleteNotice[Len(IncompleteNotice)], InterruptedNotice[1]}
EndsWithNotice(t) == Len(t) > 0 /\ t[Len(t)] \in NoticeAtoms

\* C21: when the authoritative outcome of a run has subtype
\* error_max_turns, the returned text ends with the continuation notice,
\* whatever the length of the outcome's result text.
C21_MaxTurnsGetsNotice ==
    (StreamSucceeded /\ AuthoritativeIdx # {}
       /\ LastAuthoritative.subtype = "error_max_turns") =>
        EndsWithNotice(Result.result)

\* C23: a fallback process that exits zero is reported as succeeded, with
\* the result field of a structured object and the raw output otherwise,
\* for every output; a process that exits non-zero fails.
C23_FallbackExitDecides ==
    (Done /\ CliRan /\ cli_run[1].kind = "exit") =>
        /\ Returned
        /\ IF cli_run[1].returncode = 0
           THEN /\ Result.success
                /\ Result.result = FallbackOutput(cli_run[1].stdout)
           ELSE ~Result.success

\* The text finalized from an authoritative text and the content texts.
ExpectedText(auth, texts) ==
    LET hasAuth == auth # NoneText /\ Len(auth) > 0
        cat == Concat(texts)
    IN  IF hasAuth /\ TrimmedLen(auth) >= MinContentLen THEN Trimmed(auth)
        ELSE IF Len(texts) = 0 THEN InterruptedNotice
        ELSE IF hasAuth \/ TrimmedLen(cat) < MinContentLen
        THEN Trimmed(cat \o IncompleteNotice)
        ELSE Trimmed(cat)

\* C24: of several success / error_max_turns outcomes the last one in
\* arrival order gives the token, the cost and the result text (the text
\* is finalized from the content when the last one has none); outcomes of
\* other subtypes change nothing, and without such an outcome there is no
\* token and no cost.
C24_LastOutcomeWins ==
    StreamSucceeded =>
        IF AuthoritativeIdx = {}
        THEN /\ Result.session_id = None
             /\ Result.cost = Some(0)
             /\ Result.result = ExpectedText(NoneText, BufferedTexts)
        ELSE /\ Result.session_id = LastAuthoritative.session_id
             /\ Result.cost = LastAuthoritative.total_cost_usd
             /\ Result.result = ExpectedText(LastAuthoritative.result, BufferedTexts)

\* Two authoritative outcomes arrived; the last one, without a text, gave
\* the token and the cost, and the text of the first one is not returned.
C24_Witness ==
    /\ StreamSucceeded /\ Len(messages) = 2
    /\ messages[1] = Outcome("success", "s1", LongText)
    /\ messages[2] = Outcome("error_max_turns", "s2", NoneText)
    /\ Result.session_id = "s2" /\ Result.cost = CostOf("s2")
    /\ Result.result = InterruptedNotice

NoAuthoritativeText ==
    LastAuthoritativeText = NoneText \/ Len(LastAuthoritativeText) = 0

\* C25: the buffer only grows at its end, by the event received; without
\* an authoritative result text the returned text is made of the text
\* items of the buffered content events, each once, in arrival order,
\* joined by a blank line (followed by the notice when it is short).
C25_ContentInArrivalOrder ==
    /\ [][\/ messages' = messages
          \/ /\ Len(messages') = Len(messages) + 1
             /\ SubSeq(messages', 1, Len(messages)) = messages]_vars
    /\ []((StreamSucceeded /\ NoAuthoritativeText) =>
            LET cat == Concat(BufferedTexts)
            IN  Result.result =
                   IF Cardinality(TextPositions) = 0 THEN InterruptedNotice
                   ELSE IF TrimmedLen(cat) < MinContentLen
                   THEN Trimmed(cat \o IncompleteNotice)
                   ELSE Trimmed(cat))

\* A completed stream of two content events with three text items in all.
C25_Witness ==
    /\ StreamSucceeded /\ ~StreamRaised /\ Len(messages) = 2
    /\ Cardinality(TextPositions) = 3
    /\ messages[1].content # messages[2].content
    /\ Result.result = Trimmed(Concat(BufferedTexts))

\* The stream raised an error whose message names neither transient class.
OtherErrorRaised ==
    /\ StreamRaised /\ ~CallerCancelled
    /\ \A i \in 1..Len(query_error[1].msg) :
          query_error[1].msg[i] \notin {"JSONDecodeError", "TaskGroup"}

\* C26: a stream error that is not transient gives success=false whatever
\* was buffered: no fallback, no continuation token, and a result made of
\* the error message alone.
C26_NonTransientFails ==
    (Done /\ OtherErrorRaised) =>
        /\ Returned /\ ~Result.success
        /\ cli_calls = 0
        /\ get(Result, "session_id") = None
        /\ DOMAIN Result = {"success", "error", "result"}
        /\ Result.result \in FixedMessages \cup {query_error[1].msg}

\* A non-transient error after a buffered success outcome with a token.
C26_Witness ==
    /\ Done /\ OtherErrorRaised /\ Returned /\ ~Result.success
    /\ \E i \in 1..Len(messages) :
          /\ IsSuccessOutcome(messages[i])
          /\ messages[i].session_id = "s1"
          /\ messages[i].result = LongText

\* ------------------------------------------- claims about the registry
AllKeys == { SessionKey(u, "C1") : u \in {"U1", "U2"} }

\* The step in which the run of request p returns to its handler.
RunReturns(p) == handlers[p].pc # "respond" /\ handlers'[p].pc = "respond"

HResult(p) == handlers[p].result[1]
HReturned(p) == handlers[p].result # Nothing
NoToken(result) == get(result, "session_id") \in {None, ""}

\* C12: a Put(k, t) makes Get(k) return t, also when k already held a
\* token, and changes what Get returns for no other key.
C12_ReadYourWrite ==
    [][\A p \in Procs :
         (RunReturns(p) /\ ~NoToken(handlers'[p].result[1])) =>
            /\ get(active_sessions', KeyOf(handlers[p]))
                  = handlers'[p].result[1].session_id
            /\ \A k \in AllKeys \ {KeyOf(handlers[p])} :
                  get(active_sessions', k) = get(active_sessions, k)]_vars

\* r1 overwrote the token it had read for U1, next to r2's entry for U2.
C12_Witness ==
    /\ HReturned("r1") /\ HReturned("r2")
    /\ handlers["r1"].session_id = "s0"
    /\ active_sessions = Put(Put(<<>>, SessionKey("U1", "C1"), "s1"),
                             SessionKey("U2", "C1"), "s2")

\* C13: a run that returns without a continuation token leaves the
\* registry as it was, and no step removes a key of the registry or sets it
\* to an empty token.
C13_NoTokenNoPut ==
    [][/\ \A p \in Procs :
            (RunReturns(p) /\ NoToken(handlers'[p].result[1])) =>
                active_sessions' = active_sessions
       /\ \A k \in DOMAIN active_sessions :
            /\ k \in DOMAIN active_sessions'
            /\ active_sessions'[k] \notin {None, ""}]_vars

\* A success run whose outcome carried an empty token, and a failed run,
\* returned under a key that holds the earlier token.
C13_Witness ==
    /\ HReturned("r1") /\ HReturned("r2")
    /\ HResult("r1").success /\ HResult("r1").session_id = ""
    /\ ~HResult("r2").success
    /\ KeyOf(handlers["r2"]) = KeyOf(handlers["r1"])
    /\ active_sessions = Put(<<>>, SessionKey("U1", "C1"), "s0")

HTransient(p) ==
    /\ handlers[p].query_error # Nothing
    /\ IsTransient(handlers[p].query_error[1])
HDegraded(p) == HReturned(p) /\ HTransient(p) /\ handlers[p].messages # <<>>
HFallbackSuccess(p) ==
    HReturned(p) /\ handlers[p].cli_run # Nothing /\ HResult(p).success

\* C14 as stated: a degraded-success and a fallback-success run return no
\* continuation token and leave the registry unchanged, whatever was
\* buffered before the error.
C14_DegradedNeverPuts ==
    [][\A p \in Procs :
         (RunReturns(p) /\ (HDegraded(p) \/ HFallbackSuccess(p))') =>
            /\ NoToken(handlers'[p].result[1])
            /\ active_sessions' = active_sessions]_vars

SameKey == KeyOf(handlers["r1"]) = KeyOf(handlers["r2"])
Putters(k) == { p \in Procs : KeyOf(handlers[p]) = k /\ handlers[p].put_seq > 0 }
LastPutter(k) ==
    CHOOSE p \in Putters(k) :
        \A q \in Putters(k) : handlers[q].put_seq <= handlers[p].put_seq

\* C15: the registry does not order the runs of one key: whatever the runs
\* read, the entry holds the token of the run that called Put last.
C15_LastPutWins ==
    \A k \in AllKeys :
        Putters(k) # {} =>
            get(active_sessions, k) = HResult(LastPutter(k)).session_id

\* Both requests read s0 before either Put, both resumed from s0, r1 Put
\* first and r2 last: the entry holds r2's token and r1's token is lost.
C15_Witness ==
    /\ SameKey
    /\ \A p \in Procs : handlers[p].session_id = "s0" /\ handlers[p].resume = "s0"
    /\ handlers["r1"].put_seq = 1 /\ HResult("r1").session_id = "s1"
    /\ handlers["r2"].put_seq = 2 /\ HResult("r2").session_id = "s2"
    /\ active_sessions = Put(<<>>, SessionKey("U1", "C1"), "s2")

\* The result of the run of p when it runs alone: a function of the events
\* the backend streamed to it, the error of its stream and its CLI run.
AloneResult(p) ==
    LET h == handlers[p]
    IN  IF h.options = "rejected"
        THEN ErrorResult(Exc("TypeError",
                 <<"__init__() got an unexpected keyword argument 'max_turns'">>))
        ELSE IF h.cli_run # Nothing
        THEN LET out == CliOutcome(h.cli_run[1])
             IN  IF "returned" \in DOMAIN out THEN out.returned
                 ELSE ErrorResult(out.raised)
        ELSE IF h.query_error = Nothing \/ (HTransient(p) /\ h.emitted # <<>>)
        THEN SuccessResult(h.emitted)
        ELSE ErrorResult(h.query_error[1])

\* C16: a run buffers exactly the events streamed to it, and its result is
\* the result of the same run alone, however the other request interleaves.
C16_ResultIsOwn ==
    \A p \in Procs :
        /\ handlers[p].messages = handlers[p].emitted
        /\ HReturned(p) => HResult(p) = AloneResult(p)

\* Both runs were streaming at the same time under one key, and each
\* returned the token and text of its own stream.
C16_Witness ==
    /\ SameKey
    /\ \A p \in Procs :
          /\ HReturned(p) /\ HResult(p).success
          /\ handlers[p].emitted # <<>>
          /\ HResult(p).session_id = RunToken(p)
    /\ handlers["r1"].put_seq = 2 /\ handlers["r2"].put_seq = 1

\* ------------------------------------------ claims about the handlers
Accepted(p) == handlers[p].command = "/code" /\ handlers[p].text # <<>>
Ended(p) == handlers[p].pc \in {"finished", "crashed"}

\* C27: a request with a text that handle_code_command accepted is never
\* left with the working indicator alone: when its handler has ended
\* (other than by the cancellation of its task) it has sent the working
\* indicator and then exactly one final response, whatever the result of
\* the run carries.
C27_FinalResponseFollows ==
    \A p \in Procs :
        (Accepted(p) /\ Ended(p)) =>
            /\ Len(handlers[p].sent) >= 2
            /\ handlers[p].sent[1].kind = "working"
            /\ Len(FinalCalls(handlers[p])) = 1

FinalSent(p) == FinalCalls(handlers[p]) # <<>>
OwnKey(p) == SessionKey(handlers[p].user, handlers[p].channel)

\* C28: once the final response of a run that yielded a token is sent,
\* Get on the run's key returns that token, or the token another run of
\* the key Put later, and not the token from before the run.
C28_PutBeforeResponse ==
    \A p \in Procs :
        (FinalSent(p) /\ ~NoToken(HResult(p))) =>
            LET current == get(active_sessions, OwnKey(p))
            IN  /\ current # handlers[p].session_id
                /\ \/ current = HResult(p).session_id
                   \/ \E q \in Procs \ {p} :
                        /\ OwnKey(q) = OwnKey(p)
                        /\ handlers[q].put_seq > handlers[p].put_seq
                        /\ current = HResult(q).session_id

\* r1's final response is out while the entry already holds the token
\* that r2 Put after it.
C28_Witness ==
    /\ OwnKey("r1") = OwnKey("r2")
    /\ FinalSent("r1") /\ ~FinalSent("r2")
    /\ handlers["r1"].put_seq = 1 /\ handlers["r2"].put_seq = 2
    /\ get(active_sessions, OwnKey("r1")) = "s2"

\* The token an earlier run left in the registry at the start.
InitialEntries == Put(<<>>, SessionKey("U1", "C1"), "s0")

\* C29: every entry of the registry is a non-empty token returned by a
\* completed run that was started under the entry's key (or the token an
\* earlier run left there), under every interleaving.
C29_EntryIsTokenOfItsKey ==
    \A k \in DOMAIN active_sessions :
        /\ active_sessions[k] \notin {None, ""}
        /\ \/ /\ k \in DOMAIN InitialEntries
              /\ active_sessions[k] = InitialEntries[k]
           \/ \E p \in Procs :
                /\ OwnKey(p) = k
                /\ HReturned(p)
                /\ get(HResult(p), "session_id") = active_sessions[k]

\* U2's run stored its token under U2's key next to U1's earlier token,
\* which U1's tokenless run left alone.
C29_Witness ==
    /\ active_sessions = Put(InitialEntries, SessionKey("U2", "C1"), "s2")
    /\ HReturned("r1") /\ NoToken(HResult("r1"))
    /\ HReturned("r2") /\ HResult("r2").session_id = "s2"

\* ------------------------------------------------ failed runs (C31)
\* What a reader of one chat message sees: its text and then its blocks.
Displayed(call) ==
    call.text \o (IF call.blocks = Nothing THEN <<>>
                  ELSE call.blocks[1][1] \o call.blocks[1][2])

\* The fragments with which a handler announces that its task is done.
SuccessMarkers == {"[Task Completed]", "[Pull Request Created!]", " completed!]"}

Includes(text, part) ==
    \E i \in 0..(Len(text) - Len(part)) : SubSeq(text, i + 1, i + Len(part)) = part

SlashCommands == {"/code", "/feature", "/review", "/pr"}

FailedRunAnswered(p) ==
    /\ handlers[p].command \in SlashCommands
    /\ handlers[p].pc = "finished"
    /\ HReturned(p)
    /\ ~HResult(p).success

\* C31: no command handler presents a failed run as a success: when the
\* result of the run of /code, /feature, /review or /pr has success =
\* false, the final response shows the failure text of the result and no
\* completion or success marker.
C31_FailureNotShownAsSuccess ==
    \A p \in Procs :
        FailedRunAnswered(p) =>
            LET calls == FinalCalls(handlers[p])
            IN  /\ Len(calls) = 1
                /\ Includes(Displayed(calls[1]), HResult(p).result)
                /\ \A m \in SuccessMarkers : ~Contains(Displayed(calls[1]), m)

\* --------------------------------------------- runs in fallback (C32)
\* Any step of the handler of request q.
StepOf(q) ==
    \/ HStart(q)
    \/ \E cfg \in {"merged", "minimal", "rejected"} : HBuild(q, cfg)
    \/ \E message \in HEvents(q) : HReceive(q, message)
    \/ HComplete(q)
    \/ \E msg \in HErrMsgs : HQueryRaises(q, msg)
    \/ HCancel(q)
    \/ \E run \in HCliRuns : HRunCli(q, run)
    \/ HRespond(q)

\* The handler of q has work left to do.
Unfinished(q) == handlers[q].pc \in {"start", "working", "query", "respond"}

\* C32: while one run waits for its fallback process to exit, every other
\* request that is being handled and has not ended can still take a step
\* (consume a stream event, read or write the registry, send a response):
\* a run in fallback does not block the other runs.
C32_FallbackDoesNotBlock ==
    \A p \in Procs : \A q \in Procs \ {p} :
        (InFallback(p) /\ Unfinished(q)) => ENABLED StepOf(q)

====
